---- MODULE Spec2Model ----
(***************************************************************************)
(* Vigorous Power Detector (detector_zero.py).                             *)
(*                                                                         *)
(* Three relay channels, each with a module-level last state               *)
(* (R1_LAST_STATE, ...), a red and a green LED and one handler             *)
(* (r1_gpio_event_detected, ...).  main() runs each enabled channel's      *)
(* handler once, attaches it as when_held / when_released callback and     *)
(* then waits.  A handler reads the pin value, writes the two LEDs,        *)
(* branches on the last state, and on a genuine transition calls           *)
(* publish_sns_alert and then stores the new last state.                   *)
(*                                                                         *)
(* The handler is modelled statement by statement (pc), so that handlers   *)
(* of different channels interleave and the order of publish and of the    *)
(* write of the last state is that of the source.                          *)
(*                                                                         *)
(* Spec        the start and the monitoring, one invocation per channel    *)
(*             in flight at a time, pin values 0 and 1.                    *)
(* SpecLife    Spec with the shutdown: main leaves signal.pause(), closes  *)
(*             the devices and returns.                                    *)
(* SpecRaw     Spec with pin values that are neither 0 nor 1.              *)
(* SpecOverlap Spec with when_held and when_released each on a thread of   *)
(*             its own, so that two invocations of one handler overlap.    *)
(***************************************************************************)
EXTENDS Integers, Sequences, FiniteSets, TLC

\* Number of callback invocations (all channels together) a run may contain.
MaxEvents == 4

\* Number of callback invocations of a run that includes the shutdown.
MaxLifeEvents == 2

\* Number of callback invocations of a run with invalid pin values.
MaxRawEvents == 3

\* Number of callback invocations of a run in which the two callbacks of a
\* Button can be in the handler together.
MaxOverlapEvents == 3

Channels == {1, 2, 3}

\* channel.value of a gpiozero Button.
Levels == {0, 1}

\* R1_LAST_STATE = 2: no observation yet.
Initializing == 2

\* r_state while no handler invocation exists.
NoLevel == -1

\* exit_status while the process runs.
NotExited == -1

\* Rc_RELAY = Button(..), Rc_RED_LED = LED(..), Rc_GREEN_LED = LED(..), made
\* for the three relays whatever Rc_ENABLED is.
AllHandles == {"relay", "red", "green"} \X Channels

\* The close() calls of main's finally block, in their order.
CloseOrder == << <<"relay", 1>>, <<"relay", 2>>, <<"relay", 3>>,
                <<"red", 1>>, <<"red", 2>>, <<"green", 1>>, <<"green", 2>> >>

\* The values of <<R1_ENABLED, R2_ENABLED, R3_ENABLED>> a run starts with: the
\* source's, and the one with relay 3 wired in place of relay 1.
EnabledConfigs == {<<TRUE, TRUE, FALSE>>, <<FALSE, TRUE, TRUE>>}

VARIABLES
    R_ENABLED,      \* R_ENABLED[c]: configuration flag Rc_ENABLED
    LOG_GHOSTS,     \* configuration flag LOG_GHOSTS
    SNS_ENABLE,     \* configuration flag SNS_ENABLE
    main,           \* main(): [pc, ch], the statement main is at and the channel
    attached,       \* attached[c]: when_held / when_released of Rc_RELAY are set
    R_LAST_STATE,   \* R_LAST_STATE[c]: Rc_LAST_STATE
    RED_LED,        \* RED_LED[c]: Rc_RED_LED is on
    GREEN_LED,      \* GREEN_LED[c]: Rc_GREEN_LED is on
    pc,             \* pc[h]: the statement handler h is at ("idle": not running)
    r_state,        \* r_state[h]: the local rN_state of the running handler
    hist,           \* hist[h]: one record per branch decision of handler h
    alerts,         \* alerts[h]: the client.publish calls made for handler h
    fired,          \* callback invocations so far
    handles,        \* the Button and LED objects that exist and are not closed
    cause,          \* how signal.pause() was left: "none", "interrupt", "exception"
    exit_status,    \* exit status of the process, NotExited while it runs
    pc_held,        \* pc_held[h]: as pc[h], for handler h run by the hold thread
    r_state_held    \* r_state_held[h]: as r_state[h], for that invocation

\* The invocation of a handler by a second thread.
held == <<pc_held, r_state_held>>

\* The state of the shutdown.
life == <<handles, cause, exit_status>>

vars == <<life, held, R_ENABLED, LOG_GHOSTS, SNS_ENABLE, main, attached, R_LAST_STATE, RED_LED,
          GREEN_LED, pc, r_state, hist, alerts, fired>>

----------------------------------------------------------------------------
(* The globals each handler uses. *)

\* As LastStateOf, with the handler of relay 2 left on R1_LAST_STATE.
LastStateOfCopied(h) == IF h = 2 THEN 1 ELSE h

\* global R1_LAST_STATE / R2_LAST_STATE / R3_LAST_STATE
LastStateOf(h) == CASE h = 1 -> 1 [] h = 2 -> 2 [] h = 3 -> 3

\* R1_RED_LED / R2_RED_LED / R3_RED_LED
RedOf(h) == CASE h = 1 -> 1 [] h = 2 -> 2 [] h = 3 -> 3

\* R1_GREEN_LED / R2_GREEN_LED / R3_GREEN_LED
GreenOf(h) == CASE h = 1 -> 1 [] h = 2 -> 2 [] h = 3 -> 3

----------------------------------------------------------------------------
(* The branch of the handler: the status it assigns, "none" when no branch *)
(* is taken (nothing is printed, nothing is changed).                      *)

\* As Status, without the test of the last state on the genuine branches.
StatusGhostAlerts(last, level, logGhosts) ==
    IF level = 1
    THEN IF last = 0 \/ last = 1 THEN "Failure"
         ELSE IF last = Initializing THEN "Script Initializing" ELSE "none"
    ELSE IF last = 1 \/ last = 0 THEN "Success"
         ELSE IF last = Initializing THEN "Script Initializing" ELSE "none"

\* As Status, with the genuine branches also taken from Initializing.
StatusInitAlerts(last, level, logGhosts) ==
    IF level = 1
    THEN IF last = 0 \/ last = Initializing THEN "Failure"
         ELSE IF last = 1 /\ logGhosts THEN "Ghost Trigger" ELSE "none"
    ELSE IF last = 1 \/ last = Initializing THEN "Success"
         ELSE IF last = 0 /\ logGhosts THEN "Ghost Trigger" ELSE "none"

\* As Status, with the ghost branches taken whatever LOG_GHOSTS is.
StatusGhostsAlwaysLogged(last, level, logGhosts) ==
    IF level = 1
    THEN IF last = 0 THEN "Failure"
         ELSE IF last = 1 THEN "Ghost Trigger"
         ELSE IF last = Initializing THEN "Script Initializing"
         ELSE "none"
    ELSE IF last = 1 THEN "Success"
         ELSE IF last = 0 THEN "Ghost Trigger"
         ELSE IF last = Initializing THEN "Script Initializing"
         ELSE "none"

\* if rc_state == 1: if/elif/elif on Rc_LAST_STATE; if rc_state == 0: the same.
Status(last, level, logGhosts) ==
    IF level = 1
    THEN IF last = 0 THEN "Failure"
         ELSE IF last = 1 /\ logGhosts THEN "Ghost Trigger"
         ELSE IF last = Initializing THEN "Script Initializing"
         ELSE "none"
    ELSE IF level = 0
    THEN IF last = 1 THEN "Success"
         ELSE IF last = 0 /\ logGhosts THEN "Ghost Trigger"
         ELSE IF last = Initializing THEN "Script Initializing"
         ELSE "none"
    ELSE "none"

Genuine == {"Failure", "Success"}

Ghost == {"Ghost Trigger", "none"}

\* As PublishOutcomes, without the test of SNS_ENABLE.
PublishOutcomesAlways(enable) == {"ok", "fail"}

\* What client.publish can do: return ("ok") or raise ("fail"); with
\* SNS_ENABLE false publish_sns_alert returns without calling it ("noop").
PublishOutcomes(enable) == IF enable THEN {"ok", "fail"} ELSE {"noop"}

Last(s) == s[Len(s)]

SetDisp(s, d) == [s EXCEPT ![Len(s)].disp = d]

----------------------------------------------------------------------------
Init ==
    /\ R_ENABLED \in EnabledConfigs
    /\ LOG_GHOSTS \in BOOLEAN
    /\ SNS_ENABLE \in BOOLEAN
    /\ main = [pc |-> "if", ch |-> 1]
    /\ attached = [c \in Channels |-> FALSE]
    /\ R_LAST_STATE = [c \in Channels |-> Initializing]
    /\ RED_LED = [c \in Channels |-> FALSE]
    /\ GREEN_LED = [c \in Channels |-> FALSE]
    /\ pc = [h \in Channels |-> "idle"]
    /\ r_state = [h \in Channels |-> NoLevel]
    /\ hist = [h \in Channels |-> <<>>]
    /\ alerts = [h \in Channels |-> <<>>]
    /\ fired = 0
    /\ handles = AllHandles
    /\ cause = "none"
    /\ exit_status = NotExited
    /\ pc_held = [h \in Channels |-> "idle"]
    /\ r_state_held = [h \in Channels |-> NoLevel]

\* The statement of main after channel c's block.
AfterChannel(c) == IF c < 3 THEN [pc |-> "if", ch |-> c + 1]
                   ELSE [pc |-> "pause", ch |-> c]

\* As MainIf, without the test of the flag.
MainIfAlways ==
    /\ main.pc = "if"
    /\ main' = [main EXCEPT !.pc = "check"]
    /\ UNCHANGED <<life, held, R_ENABLED, LOG_GHOSTS, SNS_ENABLE, attached, R_LAST_STATE, RED_LED,
                   GREEN_LED, pc, r_state, hist, alerts, fired>>

\* if Rc_ENABLED:
MainIf ==
    /\ main.pc = "if"
    /\ main' = IF R_ENABLED[main.ch] THEN [main EXCEPT !.pc = "check"]
               ELSE AfterChannel(main.ch)
    /\ UNCHANGED <<life, held, R_ENABLED, LOG_GHOSTS, SNS_ENABLE, attached, R_LAST_STATE, RED_LED,
                   GREEN_LED, pc, r_state, hist, alerts, fired>>

\* rc_gpio_event_detected(Rc_RELAY), called by main: the handler starts and
\* reads channel.value.
MainCheck(v) ==
    /\ main.pc = "check"
    /\ pc[main.ch] = "idle"
    /\ main' = [main EXCEPT !.pc = "attach"]
    /\ pc' = [pc EXCEPT ![main.ch] = "led_off"]
    /\ r_state' = [r_state EXCEPT ![main.ch] = v]
    /\ UNCHANGED <<life, held, R_ENABLED, LOG_GHOSTS, SNS_ENABLE, attached, R_LAST_STATE, RED_LED,
                   GREEN_LED, hist, alerts, fired>>

\* As MainAttach, with the callbacks set without waiting for the call to return.
MainAttachEarly ==
    /\ main.pc = "attach"
    /\ attached' = [attached EXCEPT ![main.ch] = TRUE]
    /\ main' = AfterChannel(main.ch)
    /\ UNCHANGED <<life, held, R_ENABLED, LOG_GHOSTS, SNS_ENABLE, R_LAST_STATE, RED_LED, GREEN_LED,
                   pc, r_state, hist, alerts, fired>>

\* The call has returned: Rc_RELAY.when_held = ..., Rc_RELAY.when_released = ...
MainAttach ==
    /\ main.pc = "attach"
    /\ pc[main.ch] = "idle"
    /\ attached' = [attached EXCEPT ![main.ch] = TRUE]
    /\ main' = AfterChannel(main.ch)
    /\ UNCHANGED <<life, held, R_ENABLED, LOG_GHOSTS, SNS_ENABLE, R_LAST_STATE, RED_LED, GREEN_LED,
                   pc, r_state, hist, alerts, fired>>

\* A when_held or when_released callback of channel h: the handler starts
\* and reads channel.value.
Fire(h, v) ==
    /\ attached[h]
    /\ pc[h] = "idle"
    /\ fired < MaxEvents
    /\ fired' = fired + 1
    /\ pc' = [pc EXCEPT ![h] = "led_off"]
    /\ r_state' = [r_state EXCEPT ![h] = v]
    /\ UNCHANGED <<life, held, R_ENABLED, LOG_GHOSTS, SNS_ENABLE, main, attached, R_LAST_STATE,
                   RED_LED, GREEN_LED, hist, alerts>>

\* The LED the handler switches off, and the one it switches on.
OffTarget(h) == IF r_state[h] = 1 THEN <<"green", GreenOf(h)>> ELSE <<"red", RedOf(h)>>

OnTarget(h) == IF r_state[h] = 1 THEN <<"red", RedOf(h)>> ELSE <<"green", GreenOf(h)>>

\* As LedOff, without the write.
LedOffSkipped(h) ==
    /\ pc[h] = "led_off"
    /\ pc' = [pc EXCEPT ![h] = "led_on"]
    /\ UNCHANGED <<life, held, R_ENABLED, LOG_GHOSTS, SNS_ENABLE, main, attached, R_LAST_STATE,
                   RED_LED, GREEN_LED, r_state, hist, alerts, fired>>

\* Rc_GREEN_LED.off() when the level is 1, Rc_RED_LED.off() when it is 0.
LedOff(h) ==
    /\ pc[h] = "led_off"
    /\ OffTarget(h) \in handles
    /\ IF r_state[h] = 1
       THEN /\ GREEN_LED' = [GREEN_LED EXCEPT ![GreenOf(h)] = FALSE]
            /\ UNCHANGED RED_LED
       ELSE /\ RED_LED' = [RED_LED EXCEPT ![RedOf(h)] = FALSE]
            /\ UNCHANGED GREEN_LED
    /\ pc' = [pc EXCEPT ![h] = "led_on"]
    /\ UNCHANGED <<life, held, R_ENABLED, LOG_GHOSTS, SNS_ENABLE, main, attached, R_LAST_STATE,
                   r_state, hist, alerts, fired>>

\* As LedOn, with the write made only when the level differs from the last
\* state (inside the genuine and initializing branches).
LedOnTransitionOnly(h) ==
    /\ pc[h] = "led_on"
    /\ IF R_LAST_STATE[LastStateOf(h)] = r_state[h]
       THEN UNCHANGED <<RED_LED, GREEN_LED>>
       ELSE IF r_state[h] = 1
       THEN /\ RED_LED' = [RED_LED EXCEPT ![RedOf(h)] = TRUE]
            /\ UNCHANGED GREEN_LED
       ELSE /\ GREEN_LED' = [GREEN_LED EXCEPT ![GreenOf(h)] = TRUE]
            /\ UNCHANGED RED_LED
    /\ pc' = [pc EXCEPT ![h] = "branch"]
    /\ UNCHANGED <<life, held, R_ENABLED, LOG_GHOSTS, SNS_ENABLE, main, attached, R_LAST_STATE,
                   r_state, hist, alerts, fired>>

\* Rc_RED_LED.on() when the level is 1, Rc_GREEN_LED.on() when it is 0.
LedOn(h) ==
    /\ pc[h] = "led_on"
    /\ OnTarget(h) \in handles
    /\ IF r_state[h] = 1
       THEN /\ RED_LED' = [RED_LED EXCEPT ![RedOf(h)] = TRUE]
            /\ UNCHANGED GREEN_LED
       ELSE /\ GREEN_LED' = [GREEN_LED EXCEPT ![GreenOf(h)] = TRUE]
            /\ UNCHANGED RED_LED
    /\ pc' = [pc EXCEPT ![h] = "branch"]
    /\ UNCHANGED <<life, held, R_ENABLED, LOG_GHOSTS, SNS_ENABLE, main, attached, R_LAST_STATE,
                   r_state, hist, alerts, fired>>

\* if Rc_LAST_STATE == ...: elif ...: the branch is chosen; the genuine
\* branches go on to publish_sns_alert, the initializing branch stores the
\* level, the ghost branch only prints, and the handler returns.
Branch(h) ==
    /\ pc[h] = "branch"
    /\ LET last == R_LAST_STATE[LastStateOf(h)]
           st   == Status(last, r_state[h], LOG_GHOSTS)
       IN /\ hist' = [hist EXCEPT ![h] = Append(@,
                        [level |-> r_state[h], prev |-> last, status |-> st,
                         disp |-> "none"])]
          /\ IF st \in Genuine
             THEN /\ pc' = [pc EXCEPT ![h] = "publish"]
                  /\ UNCHANGED <<R_LAST_STATE, r_state>>
             ELSE /\ pc' = [pc EXCEPT ![h] = "idle"]
                  /\ r_state' = [r_state EXCEPT ![h] = NoLevel]
                  /\ R_LAST_STATE' =
                        IF st = "Script Initializing"
                        THEN [R_LAST_STATE EXCEPT ![LastStateOf(h)] = r_state[h]]
                        ELSE R_LAST_STATE
    /\ UNCHANGED <<life, held, R_ENABLED, LOG_GHOSTS, SNS_ENABLE, main, attached, RED_LED, GREEN_LED,
                   alerts, fired>>

\* publish_sns_alert(event_time, Rc_NAME, status, description, rc_state):
\* one client.publish when SNS_ENABLE.  When it raises, the exception leaves
\* the handler, and the assignment after the call is not reached.
Publish(h) ==
    /\ pc[h] = "publish"
    /\ \E o \in PublishOutcomes(SNS_ENABLE) :
          /\ hist' = [hist EXCEPT ![h] = SetDisp(@, o)]
          /\ alerts' = IF o = "noop" THEN alerts
                       ELSE [alerts EXCEPT ![h] = Append(@,
                               [status |-> Last(hist[h]).status,
                                pinState |-> r_state[h], ok |-> (o = "ok")])]
          /\ IF o = "fail"
             THEN /\ pc' = [pc EXCEPT ![h] = "idle"]
                  /\ r_state' = [r_state EXCEPT ![h] = NoLevel]
             ELSE /\ pc' = [pc EXCEPT ![h] = "store"]
                  /\ UNCHANGED r_state
    /\ UNCHANGED <<life, held, R_ENABLED, LOG_GHOSTS, SNS_ENABLE, main, attached, R_LAST_STATE,
                   RED_LED, GREEN_LED, fired>>

\* As Store, without the assignment.
StoreSkipped(h) ==
    /\ pc[h] = "store"
    /\ pc' = [pc EXCEPT ![h] = "idle"]
    /\ r_state' = [r_state EXCEPT ![h] = NoLevel]
    /\ UNCHANGED <<life, held, R_ENABLED, LOG_GHOSTS, SNS_ENABLE, main, attached, R_LAST_STATE,
                   RED_LED, GREEN_LED, hist, alerts, fired>>

\* Rc_LAST_STATE = rc_state, and the handler returns.
Store(h) ==
    /\ pc[h] = "store"
    /\ R_LAST_STATE' = [R_LAST_STATE EXCEPT ![LastStateOf(h)] = r_state[h]]
    /\ pc' = [pc EXCEPT ![h] = "idle"]
    /\ r_state' = [r_state EXCEPT ![h] = NoLevel]
    /\ UNCHANGED <<life, held, R_ENABLED, LOG_GHOSTS, SNS_ENABLE, main, attached, RED_LED, GREEN_LED,
                   hist, alerts, fired>>

Next ==
    \/ MainIf
    \/ \E v \in Levels : MainCheck(v)
    \/ MainAttach
    \/ \E h \in Channels, v \in Levels : Fire(h, v)
    \/ \E h \in Channels : LedOff(h)
    \/ \E h \in Channels : LedOn(h)
    \/ \E h \in Channels : Branch(h)
    \/ \E h \in Channels : Publish(h)
    \/ \E h \in Channels : Store(h)

Spec == Init /\ [][Next]_vars

----------------------------------------------------------------------------
(* The shutdown: main leaves signal.pause(), closes the devices in the     *)
(* finally block and returns; the script ends and the process exits.       *)

\* except KeyboardInterrupt: CTRL-C while main is in signal.pause().
Interrupt ==
    /\ main.pc = "pause"
    /\ main' = [main EXCEPT !.pc = "finally"]
    /\ cause' = "interrupt"
    /\ UNCHANGED <<handles, exit_status, held, R_ENABLED, LOG_GHOSTS, SNS_ENABLE, attached,
                   R_LAST_STATE, RED_LED, GREEN_LED, pc, r_state, hist, alerts, fired>>

\* except Exception as ex: the exception is printed.
Fault ==
    /\ main.pc = "pause"
    /\ main' = [main EXCEPT !.pc = "finally"]
    /\ cause' = "exception"
    /\ UNCHANGED <<handles, exit_status, held, R_ENABLED, LOG_GHOSTS, SNS_ENABLE, attached,
                   R_LAST_STATE, RED_LED, GREEN_LED, pc, r_state, hist, alerts, fired>>

\* The close() calls of the finally block still to make.
ToClose == {i \in 1..Len(CloseOrder) : CloseOrder[i] \in handles}

\* The next close() of the finally block: a closed Button fires no callback
\* any more, a closed LED is off.
Close ==
    /\ main.pc = "finally"
    /\ ToClose /= {}
    /\ LET i == CHOOSE j \in ToClose : \A k \in ToClose : j <= k
           d == CloseOrder[i]
       IN /\ handles' = handles \ {d}
          /\ attached' = IF d[1] = "relay" THEN [attached EXCEPT ![d[2]] = FALSE]
                         ELSE attached
          /\ RED_LED' = IF d[1] = "red" THEN [RED_LED EXCEPT ![d[2]] = FALSE]
                        ELSE RED_LED
          /\ GREEN_LED' = IF d[1] = "green" THEN [GREEN_LED EXCEPT ![d[2]] = FALSE]
                          ELSE GREEN_LED
    /\ UNCHANGED <<cause, exit_status, held, R_ENABLED, LOG_GHOSTS, SNS_ENABLE, main,
                   R_LAST_STATE, pc, r_state, hist, alerts, fired>>

\* The finally block is done: main prints the elapsed time and returns, the
\* script ends, and the interpreter exits with status 0.
MainReturn ==
    /\ main.pc = "finally"
    /\ ToClose = {}
    /\ main' = [main EXCEPT !.pc = "done"]
    /\ exit_status' = 0
    /\ UNCHANGED <<handles, cause, held, R_ENABLED, LOG_GHOSTS, SNS_ENABLE, attached,
                   R_LAST_STATE, RED_LED, GREEN_LED, pc, r_state, hist, alerts, fired>>

\* A handler still running writes an LED that is closed: the write raises
\* and the exception leaves the handler.
LedClosed(h) ==
    /\ \/ pc[h] = "led_off" /\ OffTarget(h) \notin handles
       \/ pc[h] = "led_on" /\ OnTarget(h) \notin handles
    /\ pc' = [pc EXCEPT ![h] = "idle"]
    /\ r_state' = [r_state EXCEPT ![h] = NoLevel]
    /\ UNCHANGED <<life, held, R_ENABLED, LOG_GHOSTS, SNS_ENABLE, main, attached,
                   R_LAST_STATE, RED_LED, GREEN_LED, hist, alerts, fired>>

\* The process has not exited.
Running == exit_status = NotExited

\* The program with its shutdown, for runs of at most MaxLifeEvents callback
\* invocations; the threads end with the process.
NextLife ==
    \/ MainIf
    \/ \E v \in Levels : MainCheck(v)
    \/ MainAttach
    \/ \E h \in Channels, v \in Levels : fired < MaxLifeEvents /\ Fire(h, v)
    \/ \E h \in Channels : Running /\ LedOff(h)
    \/ \E h \in Channels : Running /\ LedOn(h)
    \/ \E h \in Channels : Running /\ LedClosed(h)
    \/ \E h \in Channels : Running /\ Branch(h)
    \/ \E h \in Channels : Running /\ Publish(h)
    \/ \E h \in Channels : Running /\ Store(h)
    \/ Interrupt
    \/ Fault
    \/ Close
    \/ MainReturn

SpecLife == Init /\ [][NextLife]_vars

----------------------------------------------------------------------------
(* A pin value that is neither 0 nor 1.  Neither `if rc_state == 1:` nor   *)
(* `if rc_state == 0:` holds for it: the handler writes no LED, takes no   *)
(* branch and returns.                                                     *)

\* A value of channel.value outside Levels.
InvalidLevels == {2}

\* The record of an invocation that read v and found the last state `last`.
Observed(v, last) ==
    [level |-> v, prev |-> last, status |-> Status(last, v, LOG_GHOSTS),
     disp |-> "none"]

\* The initial call of main reads an invalid value.
MainCheckInvalid(v) ==
    /\ main.pc = "check"
    /\ pc[main.ch] = "idle"
    /\ main' = [main EXCEPT !.pc = "attach"]
    /\ hist' = [hist EXCEPT ![main.ch] =
                  Append(@, Observed(v, R_LAST_STATE[LastStateOf(main.ch)]))]
    /\ UNCHANGED <<life, held, R_ENABLED, LOG_GHOSTS, SNS_ENABLE, attached, R_LAST_STATE,
                   RED_LED, GREEN_LED, pc, r_state, alerts, fired>>

\* A callback reads an invalid value.
FireInvalid(h, v) ==
    /\ attached[h]
    /\ pc[h] = "idle"
    /\ fired < MaxRawEvents
    /\ fired' = fired + 1
    /\ hist' = [hist EXCEPT ![h] =
                  Append(@, Observed(v, R_LAST_STATE[LastStateOf(h)]))]
    /\ UNCHANGED <<life, held, R_ENABLED, LOG_GHOSTS, SNS_ENABLE, main, attached,
                   R_LAST_STATE, RED_LED, GREEN_LED, pc, r_state, alerts>>

\* The program with pin values outside Levels, for runs of at most
\* MaxRawEvents callback invocations.
NextRaw ==
    \/ MainIf
    \/ \E v \in Levels : MainCheck(v)
    \/ MainAttach
    \/ \E h \in Channels, v \in Levels : fired < MaxRawEvents /\ Fire(h, v)
    \/ \E h \in Channels : LedOff(h)
    \/ \E h \in Channels : LedOn(h)
    \/ \E h \in Channels : Branch(h)
    \/ \E h \in Channels : Publish(h)
    \/ \E h \in Channels : Store(h)
    \/ \E v \in InvalidLevels : MainCheckInvalid(v)
    \/ \E h \in Channels, v \in InvalidLevels : FireInvalid(h, v)

SpecRaw == Init /\ [][NextRaw]_vars

----------------------------------------------------------------------------
(* The two callbacks of a Button.  main sets the same handler as when_held *)
(* and as when_released; the handler takes no lock, so an invocation by    *)
(* the thread that reports a held button and one by the thread that        *)
(* reports a release can be in the handler together.  pc / r_state are the *)
(* when_released invocation, pc_held / r_state_held the when_held one;     *)
(* both run the same statements on the same Rc_LAST_STATE and LEDs.        *)

\* Rc_RELAY.when_held fires: the handler starts and reads channel.value.
HeldFire(h, v) ==
    /\ attached[h]
    /\ pc_held[h] = "idle"
    /\ fired < MaxOverlapEvents
    /\ fired' = fired + 1
    /\ pc_held' = [pc_held EXCEPT ![h] = "led_off"]
    /\ r_state_held' = [r_state_held EXCEPT ![h] = v]
    /\ UNCHANGED <<life, R_ENABLED, LOG_GHOSTS, SNS_ENABLE, main, attached,
                   R_LAST_STATE, RED_LED, GREEN_LED, pc, r_state, hist, alerts>>

\* Rc_GREEN_LED.off() / Rc_RED_LED.off()
HeldLedOff(h) ==
    /\ pc_held[h] = "led_off"
    /\ IF r_state_held[h] = 1
       THEN /\ GREEN_LED' = [GREEN_LED EXCEPT ![GreenOf(h)] = FALSE]
            /\ UNCHANGED RED_LED
       ELSE /\ RED_LED' = [RED_LED EXCEPT ![RedOf(h)] = FALSE]
            /\ UNCHANGED GREEN_LED
    /\ pc_held' = [pc_held EXCEPT ![h] = "led_on"]
    /\ UNCHANGED <<life, r_state_held, R_ENABLED, LOG_GHOSTS, SNS_ENABLE, main,
                   attached, R_LAST_STATE, pc, r_state, hist, alerts, fired>>

\* Rc_RED_LED.on() / Rc_GREEN_LED.on()
HeldLedOn(h) ==
    /\ pc_held[h] = "led_on"
    /\ IF r_state_held[h] = 1
       THEN /\ RED_LED' = [RED_LED EXCEPT ![RedOf(h)] = TRUE]
            /\ UNCHANGED GREEN_LED
       ELSE /\ GREEN_LED' = [GREEN_LED EXCEPT ![GreenOf(h)] = TRUE]
            /\ UNCHANGED RED_LED
    /\ pc_held' = [pc_held EXCEPT ![h] = "branch"]
    /\ UNCHANGED <<life, r_state_held, R_ENABLED, LOG_GHOSTS, SNS_ENABLE, main,
                   attached, R_LAST_STATE, pc, r_state, hist, alerts, fired>>

\* if Rc_LAST_STATE == ...: elif ...
HeldBranch(h) ==
    /\ pc_held[h] = "branch"
    /\ LET last == R_LAST_STATE[LastStateOf(h)]
           st   == Status(last, r_state_held[h], LOG_GHOSTS)
       IN IF st \in Genuine
          THEN /\ pc_held' = [pc_held EXCEPT ![h] = "publish"]
               /\ UNCHANGED <<R_LAST_STATE, r_state_held>>
          ELSE /\ pc_held' = [pc_held EXCEPT ![h] = "idle"]
               /\ r_state_held' = [r_state_held EXCEPT ![h] = NoLevel]
               /\ R_LAST_STATE' =
                     IF st = "Script Initializing"
                     THEN [R_LAST_STATE EXCEPT ![LastStateOf(h)] = r_state_held[h]]
                     ELSE R_LAST_STATE
    /\ UNCHANGED <<life, R_ENABLED, LOG_GHOSTS, SNS_ENABLE, main, attached, RED_LED,
                   GREEN_LED, pc, r_state, hist, alerts, fired>>

\* publish_sns_alert(...), called with status 'Failure' after level 1 and
\* 'Success' after level 0.
HeldPublish(h) ==
    /\ pc_held[h] = "publish"
    /\ \E o \in PublishOutcomes(SNS_ENABLE) :
          /\ alerts' = IF o = "noop" THEN alerts
                       ELSE [alerts EXCEPT ![h] = Append(@,
                               [status |-> IF r_state_held[h] = 1 THEN "Failure"
                                           ELSE "Success",
                                pinState |-> r_state_held[h], ok |-> (o = "ok")])]
          /\ IF o = "fail"
             THEN /\ pc_held' = [pc_held EXCEPT ![h] = "idle"]
                  /\ r_state_held' = [r_state_held EXCEPT ![h] = NoLevel]
             ELSE /\ pc_held' = [pc_held EXCEPT ![h] = "store"]
                  /\ UNCHANGED r_state_held
    /\ UNCHANGED <<life, R_ENABLED, LOG_GHOSTS, SNS_ENABLE, main, attached,
                   R_LAST_STATE, RED_LED, GREEN_LED, pc, r_state, hist, fired>>

\* Rc_LAST_STATE = rc_state, and the handler returns.
HeldStore(h) ==
    /\ pc_held[h] = "store"
    /\ R_LAST_STATE' = [R_LAST_STATE EXCEPT ![LastStateOf(h)] = r_state_held[h]]
    /\ pc_held' = [pc_held EXCEPT ![h] = "idle"]
    /\ r_state_held' = [r_state_held EXCEPT ![h] = NoLevel]
    /\ UNCHANGED <<life, R_ENABLED, LOG_GHOSTS, SNS_ENABLE, main, attached, RED_LED,
                   GREEN_LED, pc, r_state, hist, alerts, fired>>

\* The program with both callbacks, for runs of at most MaxOverlapEvents
\* callback invocations.
NextOverlap ==
    \/ MainIf
    \/ \E v \in Levels : MainCheck(v)
    \/ MainAttach
    \/ \E h \in Channels, v \in Levels : fired < MaxOverlapEvents /\ Fire(h, v)
    \/ \E h \in Channels : LedOff(h)
    \/ \E h \in Channels : LedOn(h)
    \/ \E h \in Channels : Branch(h)
    \/ \E h \in Channels : Publish(h)
    \/ \E h \in Channels : Store(h)
    \/ \E h \in Channels, v \in Levels : HeldFire(h, v)
    \/ \E h \in Channels : HeldLedOff(h)
    \/ \E h \in Channels : HeldLedOn(h)
    \/ \E h \in Channels : HeldBranch(h)
    \/ \E h \in Channels : HeldPublish(h)
    \/ \E h \in Channels : HeldStore(h)

SpecOverlap == Init /\ [][NextOverlap]_vars

----------------------------------------------------------------------------
TypeOK ==
    /\ R_ENABLED \in EnabledConfigs
    /\ LOG_GHOSTS \in BOOLEAN
    /\ SNS_ENABLE \in BOOLEAN
    /\ main.pc \in {"if", "check", "attach", "pause", "finally", "done"}
    /\ main.ch \in Channels
    /\ attached \in [Channels -> BOOLEAN]
    /\ R_LAST_STATE \in [Channels -> {0, 1, 2}]
    /\ RED_LED \in [Channels -> BOOLEAN]
    /\ GREEN_LED \in [Channels -> BOOLEAN]
    /\ pc \in [Channels -> {"idle", "led_off", "led_on", "branch", "publish", "store"}]
    /\ r_state \in [Channels -> Levels \cup {NoLevel}]
    /\ fired \in 0..MaxEvents
    /\ handles \subseteq AllHandles
    /\ cause \in {"none", "interrupt", "exception"}
    /\ exit_status \in {NotExited, 0}
    /\ pc_held \in [Channels -> {"idle", "led_off", "led_on", "branch", "publish", "store"}]
    /\ r_state_held \in [Channels -> Levels \cup {NoLevel}]

----------------------------------------------------------------------------
(* Readings of the history used by the properties. *)

LevelsOf(s) == [i \in 1..Len(s) |-> s[i].level]

StatusesOf(s) == [i \in 1..Len(s) |-> s[i].status]

\* The handler of channel h has returned from every invocation made so far.
Quiet(h) == pc[h] = "idle"

\* No client.publish made for channel h has raised.
NoPublishRaised(h) == \A i \in 1..Len(hist[h]) : hist[h][i].disp /= "fail"

\* A client.publish was called for the observation.
Published(r) == r.disp \in {"ok", "fail"}

\* One alert per position i >= 2 of ls whose level differs from the one before.
RECURSIVE ExpectedFrom(_, _)
ExpectedFrom(ls, i) ==
    IF i > Len(ls) THEN <<>>
    ELSE (IF ls[i] /= ls[i - 1]
          THEN << [status |-> IF ls[i] = 1 THEN "Failure" ELSE "Success",
                   pinState |-> ls[i], ok |-> TRUE] >>
          ELSE <<>>) \o ExpectedFrom(ls, i + 1)

ExpectedAlerts(ls) == ExpectedFrom(ls, 2)

----------------------------------------------------------------------------
C2_TransitionTable ==
    \A h \in Channels :
        (Quiet(h) /\ hist[h] /= <<>> /\ Last(hist[h]).prev \in {0, 1}) =>
            LET r == Last(hist[h])
            IN /\ (r.prev = 0 /\ r.level = 1) =>
                     (r.status = "Failure" /\ R_LAST_STATE[h] = 1)
               /\ (r.prev = 1 /\ r.level = 0) =>
                     (r.status = "Success" /\ R_LAST_STATE[h] = 0)
               /\ (r.prev = r.level) =>
                     (r.status \in Ghost /\ R_LAST_STATE[h] = r.prev)
               /\ (r.status \in Genuine) =>
                     (R_LAST_STATE[h] = r.level /\ r.disp /= "none")

\* C3: the first observation of a channel is made in state Initializing, is
\* classified Script Initializing whatever the level, calls no dispatcher, and
\* leaves the state at the level (1: PowerOff, 0: PowerOn).
C3_FirstObserveInitializes ==
    \A h \in Channels :
        hist[h] /= <<>> =>
            /\ hist[h][1].prev = Initializing
            /\ hist[h][1].status = "Script Initializing"
            /\ hist[h][1].disp = "none"
            /\ Len(hist[h]) = 1 =>
                  (alerts[h] = <<>> /\ R_LAST_STATE[h] = hist[h][1].level)

C3_Witness ==
    \E h \in Channels :
        /\ Quiet(h) /\ Len(hist[h]) = 1
        /\ hist[h][1].level = 1
        /\ hist[h][1].status = "Script Initializing"
        /\ R_LAST_STATE[h] = 1

C5_GhostsChangeNothing ==
    \A h \in Channels : \A i \in 1..Len(hist[h]) :
        LET r == hist[h][i]
        IN /\ (r.status \in Ghost) <=> (r.prev = r.level)
           /\ (r.status = "Ghost Trigger") <=> (r.prev = r.level /\ LOG_GHOSTS)
           /\ (r.prev = r.level) =>
                 /\ r.disp = "none"
                 /\ i < Len(hist[h]) => hist[h][i + 1].prev = r.prev
                 /\ i = Len(hist[h]) => R_LAST_STATE[h] = r.prev

C5_Witness ==
    \E h \in Channels :
        /\ Quiet(h) /\ Len(hist[h]) >= 3
        /\ hist[h][Len(hist[h]) - 1].status \in Ghost
        /\ hist[h][Len(hist[h])].status \in Ghost
        /\ Len(alerts[h]) = 0

\* C6: with SNS_ENABLE false no client.publish is ever called, every call of
\* publish_sns_alert returns, and the state progresses as with alerts: an
\* observation is genuine exactly when its level differs from the one before,
\* and after it the state is its level.
C6_DisabledNeverPublishes ==
    ~SNS_ENABLE =>
        \A h \in Channels :
            /\ alerts[h] = <<>>
            /\ \A i \in 1..Len(hist[h]) :
                  /\ hist[h][i].disp \in {"none", "noop"}
                  /\ i > 1 => ((hist[h][i].status \in Genuine)
                                 <=> (hist[h][i].level /= hist[h][i - 1].level))
            /\ (Quiet(h) /\ hist[h] /= <<>>) =>
                  R_LAST_STATE[h] = Last(hist[h]).level

C6_Witness ==
    /\ ~SNS_ENABLE
    /\ \E h \in Channels :
          /\ Quiet(h) /\ Len(hist[h]) >= 3
          /\ Last(hist[h]).disp = "noop"
          /\ hist[h][Len(hist[h]) - 1].disp = "noop"
          /\ R_LAST_STATE[h] = Last(hist[h]).level

\* C7: on a genuine transition the new state is stored before the dispatcher
\* is called, and after a publish that raised the state equals the level just
\* observed.
C7_CommittedBeforeDispatch ==
    \A h \in Channels :
        /\ pc[h] = "publish" => R_LAST_STATE[h] = r_state[h]
        /\ (Quiet(h) /\ hist[h] /= <<>> /\ Last(hist[h]).disp = "fail") =>
              R_LAST_STATE[h] = Last(hist[h]).level

\* C8: after a genuine observation whose publish raised, the next observation
\* with the opposite level is classified genuine (Success after a failed
\* Failure, Failure after a failed Success), so that a dispatch is attempted.
C8_NextEventAfterFailure ==
    \A h \in Channels : \A i \in 1..(Len(hist[h]) - 1) :
        (hist[h][i].disp = "fail" /\ hist[h][i + 1].level /= hist[h][i].level)
        => /\ hist[h][i + 1].status \in Genuine
           /\ hist[h][i + 1].status =
                 (IF hist[h][i + 1].level = 0 THEN "Success" ELSE "Failure")

\* C9: an observation that repeats the level of the one before never causes
\* a client.publish, also when the publish of the one before raised.
C9_NoSecondAttempt ==
    \A h \in Channels : \A i \in 1..(Len(hist[h]) - 1) :
        hist[h][i + 1].level = hist[h][i].level => ~Published(hist[h][i + 1])

\* C10: a step of the handler of channel a leaves the last state and the two
\* LEDs of every other channel unchanged, and the state it branches on is a's.
C10_ChannelIndependence ==
    [][\A a \in Channels :
          pc'[a] /= pc[a] =>
             /\ \A b \in Channels \ {a} :
                   /\ R_LAST_STATE'[b] = R_LAST_STATE[b]
                   /\ RED_LED'[b] = RED_LED[b]
                   /\ GREEN_LED'[b] = GREEN_LED[b]
                   /\ hist'[b] = hist[b]
                   /\ alerts'[b] = alerts[b]
             /\ Len(hist'[a]) > Len(hist[a]) =>
                   Last(hist'[a]).prev = R_LAST_STATE[a]]_vars

C10_Witness ==
    \E a \in Channels, b \in Channels :
        /\ a /= b
        /\ pc[a] = "publish" /\ pc[b] = "publish"
        /\ r_state[a] /= r_state[b]
        /\ R_LAST_STATE[a] /= R_LAST_STATE[b]

C17_InitialObserveFirst ==
    \A h \in Channels :
        /\ attached[h] => (hist[h] /= <<>> /\ R_LAST_STATE[h] \in {0, 1})
        /\ hist[h] /= <<>> => R_LAST_STATE[h] \in {0, 1}
        /\ \A i \in 2..Len(hist[h]) :
              /\ hist[h][i].prev \in {0, 1}
              /\ hist[h][i].status /= "Script Initializing"
        /\ (pc[h] /= "idle" /\ hist[h] = <<>>) =>
              (main.ch = h /\ main.pc = "attach" /\ ~attached[h])

C17_Witness ==
    \E h \in Channels :
        /\ attached[h] /\ Quiet(h) /\ Len(hist[h]) >= 3
        /\ hist[h][1].status = "Script Initializing"
        /\ R_LAST_STATE[h] \in {0, 1}

C19_StateAgreesWithLeds ==
    \A h \in Channels :
        (Quiet(h) /\ hist[h] /= <<>>) =>
            /\ R_LAST_STATE[h] = Last(hist[h]).level
            /\ RED_LED[h] = (R_LAST_STATE[h] = 1)
            /\ GREEN_LED[h] = (R_LAST_STATE[h] = 0)

----------------------------------------------------------------------------
\* A channel nothing has been done with: never observed, no callback set.
Untouched(c) ==
    /\ R_LAST_STATE[c] = Initializing
    /\ ~RED_LED[c] /\ ~GREEN_LED[c]
    /\ hist[c] = <<>> /\ alerts[c] = <<>>
    /\ ~attached[c] /\ pc[c] = "idle"

HandlesOf(c) == {<<"relay", c>>, <<"red", c>>, <<"green", c>>}

\* C11: for a disabled channel no handle is bound, no initial classification
\* is made, no callback is set, and in every reachable state its last state is
\* Initializing, its LEDs are off and it has no event and no alert.
C11_DisabledSkipped ==
    \A c \in Channels :
        ~R_ENABLED[c] => (HandlesOf(c) \cap handles = {} /\ Untouched(c))

\* C11, amended: the Button and the two LEDs of a disabled channel exist from
\* the start and are open until the shutdown; apart from that the channel is
\* skipped: no initial classification, no callback, and in every reachable
\* state its last state is Initializing, its LEDs are off and it has no event
\* and no alert.
C11_DisabledNeverObserved ==
    \A c \in Channels :
        ~R_ENABLED[c] =>
            /\ Untouched(c)
            /\ main.pc \in {"if", "check", "attach", "pause"} =>
                  HandlesOf(c) \subseteq handles

C11_Witness ==
    \E c \in Channels, d \in Channels :
        /\ ~R_ENABLED[c] /\ R_ENABLED[d]
        /\ main.pc = "pause" /\ fired >= 2
        /\ Len(hist[d]) >= 2
        /\ HandlesOf(c) \subseteq handles /\ Untouched(c)

\* C12: once the shutdown has run, by an interrupt or by an exception, the
\* Button, the red LED and the green LED of every channel are closed.
C12_TeardownReleasesAll ==
    main.pc = "done" => handles = {}

\* C13: after an interrupt the shutdown has run and the process exits with
\* status 0; after an exception in the wait the shutdown has run and the
\* process exits with a status other than 0.
C13_ExitStatus ==
    main.pc = "done" =>
        /\ ToClose = {}
        /\ cause = "interrupt" => exit_status = 0
        /\ cause = "exception" => (exit_status /= NotExited /\ exit_status /= 0)

\* C15: an observation whose level is neither 0 nor 1 is rejected with the
\* error InvalidSignalLevel, and changes neither the last state nor the LEDs
\* of its channel, nor anything of another channel.
C15_InvalidLevelRejected ==
    \A h \in Channels : \A i \in 1..Len(hist[h]) :
        hist[h][i].level \notin Levels =>
            /\ hist[h][i].status = "InvalidSignalLevel"
            /\ i < Len(hist[h]) => hist[h][i + 1].prev = hist[h][i].prev
            /\ i = Len(hist[h]) => R_LAST_STATE[h] = hist[h][i].prev

\* Two alerts in a row with the same status although the first was delivered.
DuplicateAlert(h) ==
    \E i \in 1..(Len(alerts[h]) - 1) :
        alerts[h][i].ok /\ alerts[h][i + 1].status = alerts[h][i].status

\* C16: at most one invocation of a channel's handler is in flight at any
\* time, the initial call of main included, and no alert is published twice
\* for one transition.
C16_OneObserveInFlight ==
    \A h \in Channels :
        /\ ~(pc[h] /= "idle" /\ pc_held[h] /= "idle")
        /\ (main.pc = "attach" /\ main.ch = h) => pc_held[h] = "idle"
        /\ ~DuplicateAlert(h)

\* The consequence alone: no alert follows a delivered alert of the same status.
C16_NoDuplicateAlert == \A h \in Channels : ~DuplicateAlert(h)

====
